---- MODULE Spec2Model ----
(***************************************************************************)
(* Model of the query-answering workflow of langgraph-aws-bedrock:         *)
(* AgentWorkFlow (src/src/workflows/agent_workflow.py), the four nodes of  *)
(* its graph, the merge of the two hit lists, the usage telemetry and the  *)
(* stream() generator that filters the graph's events into answer          *)
(* fragments.  Texts are sequences of characters, so that upper-casing,    *)
(* substring search and concatenation are computed and not assumed.        *)
(***************************************************************************)
EXTENDS Integers, Sequences, FiniteSets, TLC

(***************************************************************************)
(* Bounds of the model.                                                    *)
(***************************************************************************)
\* longest hit list handed to __merge_chunks in MergeSpec
MaxHits == 2
\* longest hit list an index search returns in Spec
MaxSearchHits == 1
\* largest number of chunks the model stream produces
MaxChunks == 2

(***************************************************************************)
(* Program constants.                                                      *)
(***************************************************************************)
\* top_k of both index searches
TopK == 40
\* top_n of the rerank call
TopN == 10

(***************************************************************************)
(* Generic helpers.                                                        *)
(***************************************************************************)
SeqsUpTo(S, n) == UNION {[1..k -> S] : k \in 0..n}

Min(a, b) == IF a <= b THEN a ELSE b

RECURSIVE Concat(_)
\* "".join(fragments): the concatenation of a sequence of texts
Concat(ss) == IF ss = <<>> THEN <<>> ELSE Head(ss) \o Concat(Tail(ss))

\* Python dict update: the keys of u overwrite those of d
Updated(d, u) ==
    [k \in (DOMAIN d) \cup (DOMAIN u) |-> IF k \in DOMAIN u THEN u[k] ELSE d[k]]

(***************************************************************************)
(* str.upper(), str.lower() and the "in" test on the characters the model  *)
(* uses.                                                                   *)
(***************************************************************************)
UpperChar(c) ==
    CASE c = "y" -> "Y"
      [] c = "e" -> "E"
      [] c = "s" -> "S"
      [] c = "n" -> "N"
      [] c = "o" -> "O"
      [] c = "h" -> "H"
      [] c = "i" -> "I"
      [] OTHER -> c

LowerChar(c) ==
    CASE c = "Y" -> "y"
      [] c = "E" -> "e"
      [] c = "S" -> "s"
      [] c = "N" -> "n"
      [] c = "O" -> "o"
      [] c = "H" -> "h"
      [] c = "I" -> "i"
      [] c = "P" -> "p"
      [] c = "D" -> "d"
      [] c = "F" -> "f"
      [] c = "T" -> "t"
      [] c = "X" -> "x"
      [] OTHER -> c

Upper(t) == [i \in DOMAIN t |-> UpperChar(t[i])]

Lower(t) == [i \in DOMAIN t |-> LowerChar(t[i])]

\* needle in text
Contains(text, needle) ==
    \E i \in 0..(Len(text) - Len(needle)) :
        \A j \in 1..Len(needle) : text[i + j] = needle[j]

YES == <<"Y", "E", "S">>

(***************************************************************************)
(* __merge_chunks                                                          *)
(***************************************************************************)
Ids == {"a", "b"}
Scores == {1, 2}
ChunkTexts == {<<"x">>, <<"y">>}

\* a hit of an index search: {"_id", "_score", "fields": {"chunk_text"}}
Hit == [_id : Ids, _score : Scores, fields : [chunk_text : ChunkTexts]]

RECURSIVE DedupKeys(_)
\* the keys of the dict built at lines 109-112, in insertion order: a key
\* keeps the position of its first insertion
DedupKeys(hits) ==
    IF hits = <<>> THEN <<>>
    ELSE LET front == DedupKeys(SubSeq(hits, 1, Len(hits) - 1))
             last  == hits[Len(hits)]._id
         IN  IF \E i \in DOMAIN front : front[i] = last
             THEN front
             ELSE Append(front, last)

\* the value the dict holds for a key: the last hit inserted under it
DedupValue(hits, id) ==
    LET last == CHOOSE i \in DOMAIN hits :
                    /\ hits[i]._id = id
                    /\ \A j \in DOMAIN hits : hits[j]._id = id => j <= i
    IN  hits[last]

DedupedKeepFirst(hits) ==
    LET keys == DedupKeys(hits)
        first(id) == CHOOSE i \in DOMAIN hits :
                        /\ hits[i]._id = id
                        /\ \A j \in DOMAIN hits : hits[j]._id = id => i <= j
    IN  [i \in DOMAIN keys |-> hits[first(keys[i])]]

\* {hit["_id"]: hit for hit in ...}.values()
Deduped(hits) ==
    LET keys == DedupKeys(hits)
    IN  [i \in DOMAIN keys |-> DedupValue(hits, keys[i])]

RECURSIVE InsertDesc(_, _)
\* insert h behind every element whose score is at least its own
InsertDesc(sorted, h) ==
    IF sorted = <<>> THEN <<h>>
    ELSE IF Head(sorted)._score >= h._score
         THEN <<Head(sorted)>> \o InsertDesc(Tail(sorted), h)
         ELSE <<h>> \o sorted

RECURSIVE SortedByScoreDesc(_)
\* sorted(deduped_hits, key=lambda x: x["_score"], reverse=True): a stable
\* sort, hits of equal score keep their order
SortedByScoreDesc(hits) ==
    IF hits = <<>> THEN <<>>
    ELSE InsertDesc(SortedByScoreDesc(SubSeq(hits, 1, Len(hits) - 1)),
                    hits[Len(hits)])

\* the candidate handed to the reranker
Candidate(hit) == [_id |-> hit._id, chunk_text |-> hit.fields.chunk_text]

MergeChunksKeepFirst(h1, h2) ==
    LET sorted_hits == SortedByScoreDesc(DedupedKeepFirst(h1 \o h2))
    IN  [i \in DOMAIN sorted_hits |-> Candidate(sorted_hits[i])]

MergeChunksNoDedup(h1, h2) ==
    LET sorted_hits == SortedByScoreDesc(h1 \o h2)
    IN  [i \in DOMAIN sorted_hits |-> Candidate(sorted_hits[i])]

\* __merge_chunks(h1, h2) on the two lists h1["result"]["hits"] and
\* h2["result"]["hits"]
MergeChunks(h1, h2) ==
    LET sorted_hits == SortedByScoreDesc(Deduped(h1 \o h2))
    IN  [i \in DOMAIN sorted_hits |-> Candidate(sorted_hits[i])]

(***************************************************************************)
(* Values the external collaborators hand to the workflow.                 *)
(***************************************************************************)
\* Python's None
None == [none |-> TRUE]

TextPart(t) == [type |-> "text", text |-> t]

\* a content part that carries no "text" key
OtherPart == [type |-> "tool_use"]

\* texts the context-check model may answer with
VerdictTexts ==
    { <<"Y", "E", "S">>, <<"y", "e", "s">>, <<"O", "h", " ", "Y", "e", "s", "!">>,
      <<"N", "O">>, <<"n", "o">>, <<"Y", "E">>, <<>> }

\* response.content of the blocking call: a list of parts
VerdictContents ==
    {<<TextPart(t)>> : t \in VerdictTexts}
        \cup { <<>>, <<OtherPart>>, <<TextPart(<<"N", "O">>), TextPart(YES)>> }

\* usage_metadata of the blocking call's response, when it has one
ResponseUsage == { [input_tokens |-> 5, output_tokens |-> 1] }

\* usage_metadata of a stream chunk, when it has one
ChunkUsage == { [input_tokens |-> 2, output_tokens |-> 1] }

\* what client.invoke returns
Responses == [content : VerdictContents, usage_metadata : ResponseUsage \cup {None}]

\* chunk.content of a stream chunk: empty, or one text part
DeltaContents == { <<>>, <<TextPart(<<>>)>>, <<TextPart(<<"p">>)>>, <<TextPart(<<"q">>)>> }

\* what client.astream produces, one at a time
Chunks == [content : DeltaContents, usage_metadata : ChunkUsage \cup {None}]

Prompts == { <<"H", "i">>, <<"h", "i", "?">> }

\* the records the two indexes hold: ingestion writes the same record to
\* both, so a hit's chunk text is the one stored under its identifier
StoredIds == {"a", "b"}

StoredText(id) == IF id = "a" THEN <<"x">> ELSE <<"y">>

StoredHits ==
    {h \in Hit : h._id \in StoredIds /\ h.fields.chunk_text = StoredText(h._id)}

\* what index.search may return: at most top_k hits, one per identifier,
\* best score first
SearchResults ==
    {hits \in SeqsUpTo(StoredHits, Min(TopK, MaxSearchHits)) :
        /\ \A i, j \in DOMAIN hits : i # j => hits[i]._id # hits[j]._id
        /\ \A i, j \in DOMAIN hits : i < j => hits[i]._score >= hits[j]._score}

\* what inference.rerank may return in result.data: at most top_n of the
\* candidates, each once, in the order the reranker chooses
RerankResults(documents, top_n) ==
    LET picks == {p \in SeqsUpTo(DOMAIN documents, Min(top_n, Len(documents))) :
                     \A i, j \in DOMAIN p : i # j => p[i] # p[j]}
    IN  {[i \in DOMAIN p |-> [index |-> p[i], document |-> documents[p[i]]]] : p \in picks}

(***************************************************************************)
(* The state: every variable but arg1, arg2 and result maps a request to its   *)
(* own copy.                                                               *)
(***************************************************************************)
VARIABLES
    pc,              \* where the request is in stream() and in the nodes
    state,           \* GraphState of the run: a dict, keys appear when set
    response,        \* check_context_node: the model's response
    query,           \* retrieve_rag_node: the lower-cased prompt
    dense_results,   \* retrieve_rag_node: hits of the dense index
    sparse_results,  \* retrieve_rag_node: hits of the sparse index
    merged_results,  \* retrieve_rag_node: candidates handed to the reranker
    response_text,   \* generate_answer_node: accumulated answer
    input_tokens,    \* generate_answer_node: accumulated input tokens
    output_tokens,   \* generate_answer_node: accumulated output tokens
    drawn,           \* chunks drawn from the model stream so far
    written,         \* payloads handed to the stream writer so far
    yielded,         \* fragments stream() has yielded to its caller
    trace,           \* external calls issued and returned, in order
    nodes,           \* nodes the graph has started, in order
    usage,           \* invocations of __usage_metadata
    metadata,        \* usage records add_metadata has stored on the run tree
    failure,         \* the exception that ended the run, if any
    tracing,         \* whether get_current_run_tree() finds a run
    arg1,            \* MergeSpec: first argument of __merge_chunks, the sparse hits
    arg2,            \* MergeSpec: second argument of __merge_chunks, the dense hits
    result,          \* MergeSpec: what __merge_chunks returned
    upc,             \* upload: where the request is in the route and the service
    filename,        \* upload: file.filename
    file_content,    \* upload: the bytes of the file (content)
    records,         \* upload_document: the records built from the chunks
    dense_index,     \* the records the dense index holds
    sparse_index,    \* the records the sparse index holds
    caught,          \* upload_document: the exception its handler caught (e)
    http_response,   \* upload: the response the caller receives
    upload_trace     \* upload: the calls made and the exceptions raised, in order

vars == << pc, state, response, query, dense_results, sparse_results,
           merged_results, response_text, input_tokens, output_tokens, drawn,
           written, yielded, trace, nodes, usage, metadata, failure, tracing,
           arg1, arg2, result, upc, filename, file_content, records, dense_index,
           sparse_index, caught, http_response, upload_trace >>

checkLocals == << response >>
ragLocals == << query, dense_results, sparse_results, merged_results >>
genLocals == << response_text, input_tokens, output_tokens, drawn, written >>
telemetry == << usage, metadata >>
mergeVars == << arg1, arg2, result >>
uploadVars == << upc, filename, file_content, records, dense_index, sparse_index,
                caught, http_response, upload_trace >>

Runs == DOMAIN pc

NoFailure == "none"

\* the key is set in the request state of run r
Has(r, key) == key \in DOMAIN state[r]

REFUSAL == << "I'm sorry, but I cannot provide an answer based on the given input." >>

(***************************************************************************)
(* The graph of __build_graph and the events the compiled graph streams.   *)
(***************************************************************************)
END == "__end__"

CheckContextConditionInverted(st) ==
    IF st.has_context THEN "no_context" ELSE "has_context"

\* check_context_condition
CheckContextCondition(st) == IF st.has_context THEN "has_context" ELSE "no_context"

RetrieveRagConditionInverted(st) ==
    IF st.has_documents THEN "no_documents" ELSE "has_documents"

\* retrieve_rag_condition
RetrieveRagCondition(st) == IF st.has_documents THEN "has_documents" ELSE "no_documents"

\* the node that runs after `node` has returned and its update is merged
\* into st: the target of its conditional edge or of its edge; a node
\* without an outgoing edge schedules nothing and the run ends
Successor(node, st) ==
    CASE node = "check_context" ->
            IF CheckContextCondition(st) = "has_context"
            THEN "retrieve_rag" ELSE "cannot_answer"
      [] node = "retrieve_rag" ->
            IF RetrieveRagCondition(st) = "has_documents"
            THEN "generate_answer" ELSE "cannot_answer"
      [] node = "generate_answer" -> END
      [] OTHER -> END

\* the events astream emits when a node has returned `update`, in the six
\* stream modes stream() asks for: each event is <<stream_mode, chunk>>
NodeEvents(node, update, st) ==
    << <<"tasks", [name |-> node, result |-> update]>>,
       <<"updates", [n \in {node} |-> update]>>,
       <<"checkpoints", [values |-> st]>>,
       <<"values", st>> >>

\* the events for the input of the run, before the first node
InputEvents(st) == << <<"checkpoints", [values |-> st]>>, <<"values", st>> >>

\* the events of one model chunk inside generate_answer_node: the token in
\* "messages" mode, and the writer's payload in "custom" mode if the node
\* called the writer
ChunkEvents(chunk, payloads) ==
    << <<"messages", <<chunk, "metadata">>>> >>
        \o [i \in DOMAIN payloads |-> <<"custom", payloads[i]>>]

\* the body of the loop of stream(): the fragments yielded for a sequence
\* of events
StreamYields(events) ==
    LET RECURSIVE go(_)
        go(es) ==
            IF es = <<>> THEN <<>>
            ELSE LET mode  == Head(es)[1]
                     chunk == Head(es)[2]
                 IN  IF /\ mode \in {"custom", "values"}
                        /\ "answer" \in DOMAIN chunk
                        /\ chunk["answer"] # <<>>
                     THEN <<chunk["answer"]>> \o go(Tail(es))
                     ELSE go(Tail(es))
    IN  go(events)

(***************************************************************************)
(* Steps shared by the nodes.                                              *)
(***************************************************************************)
RaiseSwallowed(r, exception) ==
    /\ pc' = [pc EXCEPT ![r] = "cannot_answer"]
    /\ failure' = failure

\* an exception leaves the node, the graph and stream()
Raise(r, exception) ==
    /\ pc' = [pc EXCEPT ![r] = "failed"]
    /\ failure' = [failure EXCEPT ![r] = exception]

\* the node returns `update`: the graph merges it into the state, streams
\* the step's events through stream() and schedules the successor
NodeReturns(r, node, update) ==
    LET st == Updated(state[r], update)
    IN  /\ state' = [state EXCEPT ![r] = st]
        /\ yielded' = [yielded EXCEPT
                         ![r] = @ \o StreamYields(NodeEvents(node, update, st))]
        /\ pc' = [pc EXCEPT ![r] = IF Successor(node, st) = END
                                   THEN "done" ELSE Successor(node, st)]
        /\ failure' = failure

UsageMetadata(input, output) ==
    [input_tokens |-> input, output_tokens |-> output, total_tokens |-> input + output]

UsageOutcomesIgnoringRun(r) == {"lookup_raises", "recorded", "add_raises"}

\* what the two calls of __usage_metadata can do: the lookup raises, or
\* there is no run, or add_metadata stores the record, or add_metadata raises
UsageOutcomes(r) ==
    {"lookup_raises"} \cup (IF tracing[r] THEN {"recorded", "add_raises"} ELSE {"no_run"})

\* __usage_metadata(input_tokens, output_tokens), called by `node`, ending
\* in `outcome`
UsageMetadataCall(r, node, input, output, outcome) ==
    /\ usage' = [usage EXCEPT ![r] = Append(@, [node |-> node, input_tokens |-> input,
                                                output_tokens |-> output,
                                                outcome |-> outcome])]
    /\ metadata' = [metadata EXCEPT ![r] = IF outcome = "recorded"
                                           THEN Append(@, UsageMetadata(input, output))
                                           ELSE @]

UsageRaises(outcome) == outcome \in {"lookup_raises", "add_raises"}

\* entries of the trace of external calls; a return carries the number of
\* items the call returned, the streaming call the length of its context
CalledWith(name, n) == [call |-> name, event |-> "call", size |-> n]

Called(name) == CalledWith(name, 0)

Returned(name, n) == [call |-> name, event |-> "return", size |-> n]

Raised(name) == [call |-> name, event |-> "raise", size |-> 0]

Logged(r, entries) == trace' = [trace EXCEPT ![r] = @ \o entries]

Started(r, node) == nodes' = [nodes EXCEPT ![r] = Append(@, node)]

(***************************************************************************)
(* stream(): the run starts on the entry point.                            *)
(***************************************************************************)
StreamStart(r) ==
    /\ pc[r] = "start"
    /\ pc' = [pc EXCEPT ![r] = "check_context"]
    /\ yielded' = [yielded EXCEPT ![r] = @ \o StreamYields(InputEvents(state[r]))]
    /\ UNCHANGED << state, failure, trace, nodes, checkLocals, ragLocals, genLocals,
                    telemetry, tracing, mergeVars, uploadVars >>

(***************************************************************************)
(* check_context_node                                                      *)
(***************************************************************************)
\* "YES" in response.content[0]["text"].upper()
HasContext(content) == Contains(Upper(content[1].text), YES)

\* lines 76-92: the blocking model call is issued
CheckContextInvoke(r) ==
    /\ pc[r] = "check_context"
    /\ pc' = [pc EXCEPT ![r] = "check_context_invoke"]
    /\ Started(r, "check_context")
    /\ Logged(r, <<Called("invoke")>>)
    /\ UNCHANGED << state, failure, yielded, checkLocals, ragLocals, genLocals,
                    telemetry, tracing, mergeVars, uploadVars >>

\* the model call returns a response
CheckContextResponse(r) ==
    /\ pc[r] = "check_context_invoke"
    /\ \E resp \in Responses : response' = [response EXCEPT ![r] = resp]
    /\ pc' = [pc EXCEPT ![r] = "check_context_response"]
    /\ Logged(r, <<Returned("invoke", 1)>>)
    /\ UNCHANGED << state, failure, yielded, nodes, ragLocals, genLocals,
                    telemetry, tracing, mergeVars, uploadVars >>

\* the model call raises
CheckContextInvokeRaises(r) ==
    /\ pc[r] = "check_context_invoke"
    /\ Raise(r, "invoke")
    /\ Logged(r, <<Raised("invoke")>>)
    /\ UNCHANGED << state, yielded, nodes, checkLocals, ragLocals, genLocals,
                    telemetry, tracing, mergeVars, uploadVars >>

\* lines 94-99: the token counts are read, the usage is reported and the
\* verdict is returned
CheckContextReturn(r) ==
    /\ pc[r] = "check_context_response"
    /\ response' = [response EXCEPT ![r] = None]
    /\ IF response[r].usage_metadata = None
       THEN \* None["input_tokens"]
            /\ Raise(r, "TypeError")
            /\ UNCHANGED << state, yielded, telemetry >>
       ELSE \E outcome \in UsageOutcomes(r) :
            /\ UsageMetadataCall(r, "check_context",
                                 response[r].usage_metadata.input_tokens,
                                 response[r].usage_metadata.output_tokens, outcome)
            /\ IF UsageRaises(outcome)
               THEN /\ Raise(r, outcome)
                    /\ UNCHANGED << state, yielded >>
               ELSE IF response[r].content = <<>>
               THEN \* [][0]
                    /\ Raise(r, "IndexError")
                    /\ UNCHANGED << state, yielded >>
               ELSE IF "text" \notin DOMAIN response[r].content[1]
               THEN /\ Raise(r, "KeyError")
                    /\ UNCHANGED << state, yielded >>
               ELSE NodeReturns(r, "check_context",
                                [has_context |-> HasContext(response[r].content)])
    /\ UNCHANGED << trace, nodes, ragLocals, genLocals, tracing, mergeVars, uploadVars >>

(***************************************************************************)
(* retrieve_rag_node                                                       *)
(***************************************************************************)
\* line 153: merged_results = self.__merge_chunks(sparse_results, dense_results)
MergedResults(dense, sparse) == MergeChunks(sparse, dense)

NoHitsUnchecked(dense, sparse) == FALSE

\* the test of lines 147-150
NoHits(dense, sparse) == Len(dense) = 0 /\ Len(sparse) = 0

ClearRagLocals(r) ==
    /\ query' = [query EXCEPT ![r] = <<>>]
    /\ dense_results' = [dense_results EXCEPT ![r] = <<>>]
    /\ sparse_results' = [sparse_results EXCEPT ![r] = <<>>]
    /\ merged_results' = [merged_results EXCEPT ![r] = <<>>]

\* lines 129-141: the query is lower-cased and the dense search is issued
RetrieveRagDenseSearch(r) ==
    /\ pc[r] = "retrieve_rag"
    /\ pc' = [pc EXCEPT ![r] = "dense_search"]
    /\ query' = [query EXCEPT ![r] = Lower(state[r].prompt)]
    /\ Started(r, "retrieve_rag")
    /\ Logged(r, <<Called("dense")>>)
    /\ UNCHANGED << state, failure, yielded, checkLocals, dense_results, sparse_results,
                    merged_results, genLocals, telemetry, tracing, mergeVars, uploadVars >>

\* the dense search returns; lines 142-145: the sparse search is issued
RetrieveRagSparseSearch(r) ==
    /\ pc[r] = "dense_search"
    /\ \E hits \in SearchResults :
        /\ dense_results' = [dense_results EXCEPT ![r] = hits]
        /\ Logged(r, <<Returned("dense", Len(hits)), Called("sparse")>>)
    /\ pc' = [pc EXCEPT ![r] = "sparse_search"]
    /\ UNCHANGED << state, failure, yielded, nodes, checkLocals, query, sparse_results,
                    merged_results, genLocals, telemetry, tracing, mergeVars, uploadVars >>

DenseSearchRaises(r) ==
    /\ pc[r] = "dense_search"
    /\ Raise(r, "dense")
    /\ Logged(r, <<Raised("dense")>>)
    /\ UNCHANGED << state, yielded, nodes, checkLocals, ragLocals, genLocals,
                    telemetry, tracing, mergeVars, uploadVars >>

\* the sparse search returns; lines 147-163: without hits the node returns,
\* otherwise the hits are merged and the rerank call is issued
RetrieveRagMerge(r) ==
    /\ pc[r] = "sparse_search"
    /\ \E hits \in SearchResults :
        IF NoHits(dense_results[r], hits)
        THEN /\ NodeReturns(r, "retrieve_rag", [has_documents |-> FALSE])
             /\ ClearRagLocals(r)
             /\ Logged(r, <<Returned("sparse", Len(hits))>>)
        ELSE /\ sparse_results' = [sparse_results EXCEPT ![r] = hits]
             /\ merged_results' =
                    [merged_results EXCEPT ![r] = MergedResults(dense_results[r], hits)]
             /\ Logged(r, <<Returned("sparse", Len(hits)), Called("rerank")>>)
             /\ pc' = [pc EXCEPT ![r] = "rerank"]
             /\ UNCHANGED << state, failure, yielded, query, dense_results >>
    /\ UNCHANGED << nodes, checkLocals, genLocals, telemetry, tracing, mergeVars, uploadVars >>

SparseSearchRaises(r) ==
    /\ pc[r] = "sparse_search"
    /\ Raise(r, "sparse")
    /\ Logged(r, <<Raised("sparse")>>)
    /\ UNCHANGED << state, yielded, nodes, checkLocals, ragLocals, genLocals,
                    telemetry, tracing, mergeVars, uploadVars >>

HasDocumentsAlways(documents) == TRUE

\* bool(documents)
HasDocuments(documents) == documents # <<>>

\* the rerank call returns; lines 165-167
RetrieveRagReturn(r) ==
    /\ pc[r] = "rerank"
    /\ \E data \in RerankResults(merged_results[r], TopN) :
        /\ NodeReturns(r, "retrieve_rag",
                       [has_documents |-> HasDocuments(data), documents |-> data])
        /\ Logged(r, <<Returned("rerank", Len(data))>>)
    /\ ClearRagLocals(r)
    /\ UNCHANGED << nodes, checkLocals, genLocals, telemetry, tracing, mergeVars, uploadVars >>

RerankRaises(r) ==
    /\ pc[r] = "rerank"
    /\ Raise(r, "rerank")
    /\ Logged(r, <<Raised("rerank")>>)
    /\ UNCHANGED << state, yielded, nodes, checkLocals, ragLocals, genLocals,
                    telemetry, tracing, mergeVars, uploadVars >>

(***************************************************************************)
(* generate_answer_node                                                    *)
(***************************************************************************)
\* the payloads the node hands to the writer for one chunk (lines 217-219)
WriterPayloads(chunk) ==
    IF chunk.content # <<>> THEN <<[answer |-> chunk.content[1].text]>> ELSE <<>>

AppendedTextInFront(text, chunk) ==
    IF chunk.content # <<>> THEN chunk.content[1].text \o text ELSE text

\* response_text after one chunk (lines 217-218)
AppendedText(text, chunk) ==
    IF chunk.content # <<>> THEN text \o chunk.content[1].text ELSE text

TokensWithContentOnly(counts, chunk) ==
    IF chunk.usage_metadata # None /\ chunk.content # <<>>
    THEN [input_tokens  |-> counts.input_tokens + chunk.usage_metadata.input_tokens,
          output_tokens |-> counts.output_tokens + chunk.usage_metadata.output_tokens]
    ELSE counts

\* input_tokens and output_tokens after one chunk (lines 221-223)
TokensAfter(counts, chunk) ==
    IF chunk.usage_metadata # None
    THEN [input_tokens  |-> counts.input_tokens + chunk.usage_metadata.input_tokens,
          output_tokens |-> counts.output_tokens + chunk.usage_metadata.output_tokens]
    ELSE counts

RECURSIVE Joined(_, _)
\* sep.join(texts)
Joined(texts, sep) ==
    IF texts = <<>> THEN <<>>
    ELSE IF Len(texts) = 1 THEN texts[1]
    ELSE texts[1] \o sep \o Joined(Tail(texts), sep)

\* context_text of lines 178-180: the chunk texts of the reranked
\* documents, one per line
ContextText(documents) ==
    Joined([i \in DOMAIN documents |-> documents[i].document.chunk_text], <<"\n">>)

\* lines 172-216: the accumulators are reset, the prompt is built from the
\* documents and the question, and the streaming call is issued with it
GenerateAnswerStart(r) ==
    /\ pc[r] = "generate_answer"
    /\ Started(r, "generate_answer")
    /\ response_text' = [response_text EXCEPT ![r] = <<>>]
    /\ input_tokens' = [input_tokens EXCEPT ![r] = 0]
    /\ output_tokens' = [output_tokens EXCEPT ![r] = 0]
    /\ IF ~Has(r, "documents")
       THEN \* state["documents"]
            /\ Raise(r, "KeyError")
            /\ UNCHANGED trace
       ELSE /\ pc' = [pc EXCEPT ![r] = "streaming"]
            /\ Logged(r, <<CalledWith("astream", Len(ContextText(state[r].documents)))>>)
            /\ UNCHANGED failure
    /\ UNCHANGED << state, yielded, drawn, written, checkLocals, ragLocals,
                    telemetry, tracing, mergeVars, uploadVars >>

\* a chunk step that accumulates the answer in one text shared by all runs
GenerateAnswerChunkShared(r) ==
    /\ pc[r] = "streaming"
    /\ Len(drawn[r]) < MaxChunks
    /\ \E chunk \in Chunks :
        LET counts == TokensAfter([input_tokens  |-> input_tokens[r],
                                   output_tokens |-> output_tokens[r]], chunk)
        IN  /\ drawn' = [drawn EXCEPT ![r] = Append(@, chunk)]
            /\ response_text' = [q \in Runs |-> AppendedText(response_text[q], chunk)]
            /\ written' = [written EXCEPT ![r] = @ \o WriterPayloads(chunk)]
            /\ yielded' = [yielded EXCEPT
                             ![r] = @ \o StreamYields(ChunkEvents(chunk, WriterPayloads(chunk)))]
            /\ input_tokens' = [input_tokens EXCEPT ![r] = counts.input_tokens]
            /\ output_tokens' = [output_tokens EXCEPT ![r] = counts.output_tokens]
    /\ UNCHANGED << pc, state, failure, trace, nodes, checkLocals, ragLocals,
                    telemetry, tracing, mergeVars, uploadVars >>

\* one turn of the loop of lines 216-223: a chunk is drawn, appended,
\* forwarded and counted
GenerateAnswerChunk(r) ==
    /\ pc[r] = "streaming"
    /\ Len(drawn[r]) < MaxChunks
    /\ \E chunk \in Chunks :
        LET counts == TokensAfter([input_tokens  |-> input_tokens[r],
                                   output_tokens |-> output_tokens[r]], chunk)
        IN  /\ drawn' = [drawn EXCEPT ![r] = Append(@, chunk)]
            /\ response_text' = [response_text EXCEPT ![r] = AppendedText(@, chunk)]
            /\ written' = [written EXCEPT ![r] = @ \o WriterPayloads(chunk)]
            /\ yielded' = [yielded EXCEPT
                             ![r] = @ \o StreamYields(ChunkEvents(chunk, WriterPayloads(chunk)))]
            /\ input_tokens' = [input_tokens EXCEPT ![r] = counts.input_tokens]
            /\ output_tokens' = [output_tokens EXCEPT ![r] = counts.output_tokens]
    /\ UNCHANGED << pc, state, failure, trace, nodes, checkLocals, ragLocals,
                    telemetry, tracing, mergeVars, uploadVars >>

\* the model stream raises
GenerateAnswerStreamRaises(r) ==
    /\ pc[r] = "streaming"
    /\ Raise(r, "astream")
    /\ Logged(r, <<Raised("astream")>>)
    /\ UNCHANGED << state, yielded, nodes, checkLocals, ragLocals, genLocals,
                    telemetry, tracing, mergeVars, uploadVars >>

\* the model stream is exhausted; lines 225-227: the usage is reported and
\* the answer is returned
GenerateAnswerReturn(r) ==
    /\ pc[r] = "streaming"
    /\ Logged(r, <<Returned("astream", Len(drawn[r]))>>)
    /\ \E outcome \in UsageOutcomes(r) :
        /\ UsageMetadataCall(r, "generate_answer", input_tokens[r], output_tokens[r],
                             outcome)
        /\ IF UsageRaises(outcome)
           THEN /\ Raise(r, outcome)
                /\ UNCHANGED << state, yielded >>
           ELSE NodeReturns(r, "generate_answer", [answer |-> response_text[r]])
    /\ UNCHANGED << nodes, checkLocals, ragLocals, genLocals, tracing, mergeVars, uploadVars >>

(***************************************************************************)
(* cannot_answer_node                                                      *)
(***************************************************************************)
CannotAnswer(r) ==
    /\ pc[r] = "cannot_answer"
    /\ Started(r, "cannot_answer")
    /\ NodeReturns(r, "cannot_answer", [answer |-> REFUSAL])
    /\ UNCHANGED << trace, checkLocals, ragLocals, genLocals, telemetry, tracing,
                    mergeVars, uploadVars >>

(***************************************************************************)
(* Spec: one request on the workflow.                                      *)
(***************************************************************************)
RunIds == {1}

\* no upload is under way
NoUpload ==
    /\ upc = "idle"
    /\ filename = <<>>
    /\ file_content = <<>>
    /\ records = <<>>
    /\ dense_index = {}
    /\ sparse_index = {}
    /\ caught = "none"
    /\ http_response = None
    /\ upload_trace = <<>>

InitRuns(ids) ==
    /\ pc = [r \in ids |-> "start"]
    /\ state \in [ids -> {[prompt |-> p] : p \in Prompts}]
    /\ tracing \in [ids -> BOOLEAN]
    /\ response = [r \in ids |-> None]
    /\ query = [r \in ids |-> <<>>]
    /\ dense_results = [r \in ids |-> <<>>]
    /\ sparse_results = [r \in ids |-> <<>>]
    /\ merged_results = [r \in ids |-> <<>>]
    /\ response_text = [r \in ids |-> <<>>]
    /\ input_tokens = [r \in ids |-> 0]
    /\ output_tokens = [r \in ids |-> 0]
    /\ drawn = [r \in ids |-> <<>>]
    /\ written = [r \in ids |-> <<>>]
    /\ yielded = [r \in ids |-> <<>>]
    /\ trace = [r \in ids |-> <<>>]
    /\ nodes = [r \in ids |-> <<>>]
    /\ usage = [r \in ids |-> <<>>]
    /\ metadata = [r \in ids |-> <<>>]
    /\ failure = [r \in ids |-> NoFailure]

\* no call of __merge_chunks on its own is under way
NoMerge ==
    /\ arg1 = <<>>
    /\ arg2 = <<>>
    /\ result = <<>>

Init ==
    /\ InitRuns(RunIds)
    /\ NoMerge
    /\ NoUpload

Next ==
    \/ \E r \in Runs : StreamStart(r)
    \/ \E r \in Runs : CheckContextInvoke(r)
    \/ \E r \in Runs : CheckContextResponse(r)
    \/ \E r \in Runs : CheckContextInvokeRaises(r)
    \/ \E r \in Runs : CheckContextReturn(r)
    \/ \E r \in Runs : RetrieveRagDenseSearch(r)
    \/ \E r \in Runs : RetrieveRagSparseSearch(r)
    \/ \E r \in Runs : DenseSearchRaises(r)
    \/ \E r \in Runs : RetrieveRagMerge(r)
    \/ \E r \in Runs : SparseSearchRaises(r)
    \/ \E r \in Runs : RetrieveRagReturn(r)
    \/ \E r \in Runs : RerankRaises(r)
    \/ \E r \in Runs : GenerateAnswerStart(r)
    \/ \E r \in Runs : GenerateAnswerChunk(r)
    \/ \E r \in Runs : GenerateAnswerStreamRaises(r)
    \/ \E r \in Runs : GenerateAnswerReturn(r)
    \/ \E r \in Runs : CannotAnswer(r)

Spec == Init /\ [][Next]_vars

\* the event loop runs a request that can take a step
FairSpec == Spec /\ WF_vars(Next)

(***************************************************************************)
(* MergeSpec: __merge_chunks applied to a pair of hit lists.               *)
(***************************************************************************)
HitLists == SeqsUpTo(Hit, MaxHits)

InitMerge ==
    /\ InitRuns({})
    /\ arg1 \in HitLists
    /\ arg2 \in HitLists
    /\ result = <<"pending">>
    /\ NoUpload

Merge ==
    /\ result = <<"pending">>
    /\ result' = <<"returned", MergedResults(arg2, arg1)>>
    /\ UNCHANGED << arg1, arg2, pc, state, failure, yielded, trace, nodes, checkLocals,
                    ragLocals, genLocals, telemetry, tracing, uploadVars >>

NextMerge == Merge

MergeSpec == InitMerge /\ [][NextMerge]_vars

(***************************************************************************)
(* Two requests on the one AgentWorkFlow the application builds at         *)
(* start-up: their steps interleave at every await.  Each request has its  *)
(* own prompt and its model streams its own text; the inputs are kept      *)
(* small.                                                                  *)
(***************************************************************************)
ConcRunIds == {1, 2}

OwnPrompt(r) == IF r = 1 THEN <<"H", "i">> ELSE <<"h", "i", "?">>

OwnDelta(r) == IF r = 1 THEN <<"p">> ELSE <<"q">>

\* the inputs of the two requests: a plain YES or NO verdict, the one stored
\* record "a" with score 1, and chunks that carry usage and the request's
\* own text or no content
Small ==
    \A r \in Runs :
        /\ response[r] # None =>
             /\ response[r].usage_metadata # None
             /\ response[r].content \in {<<TextPart(YES)>>, <<TextPart(<<"N", "O">>)>>}
        /\ \A i \in DOMAIN dense_results[r] :
             dense_results[r][i]._id = "a" /\ dense_results[r][i]._score = 1
        /\ \A i \in DOMAIN sparse_results[r] :
             sparse_results[r][i]._id = "a" /\ sparse_results[r][i]._score = 1
        /\ \A i \in DOMAIN drawn[r] :
             /\ drawn[r][i].usage_metadata # None
             /\ drawn[r][i].content \in {<<>>, <<TextPart(OwnDelta(r))>>}

ConcInit ==
    /\ InitRuns(ConcRunIds)
    /\ \A r \in Runs : state[r].prompt = OwnPrompt(r) /\ ~tracing[r]
    /\ NoMerge
    /\ NoUpload

ConcNext ==
    \/ \E r \in Runs : StreamStart(r) /\ Small'
    \/ \E r \in Runs : CheckContextInvoke(r) /\ Small'
    \/ \E r \in Runs : CheckContextResponse(r) /\ Small'
    \/ \E r \in Runs : CheckContextInvokeRaises(r) /\ Small'
    \/ \E r \in Runs : CheckContextReturn(r) /\ Small'
    \/ \E r \in Runs : RetrieveRagDenseSearch(r) /\ Small'
    \/ \E r \in Runs : RetrieveRagSparseSearch(r) /\ Small'
    \/ \E r \in Runs : DenseSearchRaises(r) /\ Small'
    \/ \E r \in Runs : RetrieveRagMerge(r) /\ Small'
    \/ \E r \in Runs : SparseSearchRaises(r) /\ Small'
    \/ \E r \in Runs : RetrieveRagReturn(r) /\ Small'
    \/ \E r \in Runs : RerankRaises(r) /\ Small'
    \/ \E r \in Runs : GenerateAnswerStart(r) /\ Small'
    \/ \E r \in Runs : GenerateAnswerChunk(r) /\ Small'
    \/ \E r \in Runs : GenerateAnswerStreamRaises(r) /\ Small'
    \/ \E r \in Runs : GenerateAnswerReturn(r) /\ Small'
    \/ \E r \in Runs : CannotAnswer(r) /\ Small'

ConcSpec == ConcInit /\ [][ConcNext]_vars

(***************************************************************************)
(* Ingestion: the route POST /knowledgebase/upload and                     *)
(* KnowledgeBaseService.upload_document.  A file name and a text are       *)
(* sequences of characters, the content of a file a sequence of bytes.     *)
(***************************************************************************)
MaxBytes == 3
MaxRecords == 2

\* a byte that is not valid UTF-8
Invalid == "0xFF"
Whitespace == {" ", "\n"}
Characters == {"w"} \cup Whitespace

\* the file names a caller uploads
Filenames ==
    { <<"a", ".", "p", "d", "f">>, <<"a", ".", "P", "D", "F">>,
      <<"a", ".", "d", "o", "c", "x">>, <<"a", ".", "t", "x", "t">>,
      <<"a", ".", "c", "s", "v">>, <<"a", ".", "t", "x", "t", ".", "c", "s", "v">>,
      <<"a", ".", "c", "s", "v", ".", "t", "x", "t">>, <<"t", "x", "t">>,
      <<".", "t", "x", "t">>, <<>> }

Contents == SeqsUpTo({"w", " ", Invalid}, MaxBytes)

\* a JSON body: an object as the sequence of its members
HTTPException(status_code, detail) ==
    [status_code |-> status_code, content |-> << <<"detail", detail>> >>]

JSONResponse(json, status_code) == [status_code |-> status_code, content |-> json]

\* str.endswith(suffix)
EndsWith(s, suffix) ==
    /\ Len(suffix) <= Len(s)
    /\ SubSeq(s, Len(s) - Len(suffix) + 1, Len(s)) = suffix

\* file.filename.endswith((".pdf", ".docx", ".txt"))
RouteAcceptsAll(name) == TRUE

RouteAccepts(name) ==
    \/ EndsWith(name, <<".", "p", "d", "f">>)
    \/ EndsWith(name, <<".", "d", "o", "c", "x">>)
    \/ EndsWith(name, <<".", "t", "x", "t">>)

\* s.split(".")[-1]: what follows the last dot, the whole of s without one
RECURSIVE LastSegment(_)
LastSegment(s) ==
    IF s = <<>> THEN <<>>
    ELSE IF s[Len(s)] = "." THEN <<>>
    ELSE LET rest == SubSeq(s, 1, Len(s) - 1)
         IN  IF \E i \in 1..Len(rest) : rest[i] = "."
             THEN LastSegment(rest) \o <<s[Len(s)]>>
             ELSE s

\* ext = filename.lower().split(".")[-1]
Ext(name) == LastSegment(Lower(name))

\* content.decode("utf-8", errors="ignore")
ReadTxt(bytes) == SelectSeq(bytes, LAMBDA b : b # Invalid)

\* not text.strip()
Blank(text) == \A i \in 1..Len(text) : text[i] \in Whitespace

\* text.strip()
RECURSIVE Strip(_)
Strip(text) ==
    IF text = <<>> THEN <<>>
    ELSE IF Head(text) \in Whitespace THEN Strip(Tail(text))
    ELSE IF text[Len(text)] \in Whitespace THEN Strip(SubSeq(text, 1, Len(text) - 1))
    ELSE text

UNSUPPORTED == "Unsupported file type"
UNSUPPORTED_UPLOAD == "Unsupported file type. Please upload a PDF, DOCX, or TXT file."
NO_TEXT == "No readable text found in document"

\* what _extract_text does with the file: a text, or an exception
ExtractOutcomes(name, bytes) ==
    LET ext == Ext(name)
        pages == SeqsUpTo(Characters, MaxBytes)
    IN  IF ext = <<"p", "d", "f">>
        THEN {[raised |-> "PdfReader"]} \cup {[text |-> t] : t \in pages}
        ELSE IF ext = <<"d", "o", "c", "x">>
        THEN {[raised |-> "DocxDocument"]}
             \cup {[text |-> t] : t \in {u \in pages : u = <<>> \/ ~Blank(u)}}
        ELSE IF ext = <<"t", "x", "t">>
        THEN {[text |-> ReadTxt(bytes)]}
        ELSE {[raised |-> UNSUPPORTED]}

\* the ways split_text cuts a text into at most n pieces, in order
RECURSIVE Cuts(_, _)
Cuts(text, n) ==
    IF n <= 1 \/ Len(text) <= 1 THEN {<<text>>}
    ELSE {<<text>>}
         \cup UNION {{<<SubSeq(text, 1, i)>> \o rest :
                         rest \in Cuts(SubSeq(text, i + 1, Len(text)), n - 1)} :
                     i \in 1..(Len(text) - 1)}

\* what text_splitter.split_text does with the text: chunks, or an exception
SplitOutcomes(text) ==
    {[raised |-> "split_text"]} \cup {[texts |-> c] : c \in Cuts(Strip(text), MaxRecords)}

\* the records of the chunks: a fresh identifier each, the chunk, the file name
Records(texts, name) ==
    [i \in 1..Len(texts) |-> [_id |-> i, chunk_text |-> texts[i], filename |-> name]]

\* index.upsert_records("rag-namespace", records)
Upserted(index, recs) ==
    {x \in index : \A i \in 1..Len(recs) : recs[i]._id # x._id}
        \cup {recs[i] : i \in 1..Len(recs)}

\* the response of the handler: except Exception as e
ExceptionResponseLeaking(e) == JSONResponse(<< <<"detail", e>> >>, 500)

ExceptionResponse(e) == JSONResponse(<< <<"detail", "Internal Server Error">> >>, 500)

UploadEvent(call, arg) == [call |-> call, arg |-> arg]

\* an exception raised inside the try block of upload_document
Caught(e) ==
    /\ caught' = e
    /\ http_response' = ExceptionResponse(e)
    /\ upc' = "done"

\* the route: the check of the file name, then the call of the service
UploadRoute ==
    /\ upc = "route"
    /\ IF RouteAccepts(filename)
       THEN /\ upc' = "upload_document"
            /\ upload_trace' = Append(upload_trace, UploadEvent("route", filename))
            /\ UNCHANGED http_response
       ELSE /\ upc' = "done"
            /\ http_response' = HTTPException(400, UNSUPPORTED_UPLOAD)
            /\ upload_trace' = upload_trace \o <<UploadEvent("route", filename),
                                                 UploadEvent("HTTPException", 400)>>
    /\ UNCHANGED << filename, file_content, records, dense_index, sparse_index, caught >>
    /\ UNCHANGED << pc, state, failure, yielded, trace, nodes, checkLocals, ragLocals,
                    genLocals, telemetry, tracing, mergeVars >>

\* upload_document up to its first upsert: extraction, the check of the
\* text, the split and the records
UploadDocument ==
    /\ upc = "upload_document"
    /\ \E extracted \in ExtractOutcomes(filename, file_content) :
         LET called == Append(upload_trace, UploadEvent("upload_document", filename))
         IN  IF "raised" \in DOMAIN extracted
             THEN /\ Caught(extracted.raised)
                  /\ upload_trace' = Append(called, UploadEvent("raise", extracted.raised))
                  /\ UNCHANGED records
             ELSE IF Blank(extracted.text)
             THEN /\ Caught(NO_TEXT)
                  /\ upload_trace' = Append(called, UploadEvent("raise", NO_TEXT))
                  /\ UNCHANGED records
             ELSE \E split \in SplitOutcomes(extracted.text) :
                    IF "raised" \in DOMAIN split
                    THEN /\ Caught(split.raised)
                         /\ upload_trace' = Append(called, UploadEvent("raise", split.raised))
                         /\ UNCHANGED records
                    ELSE /\ records' = Records(split.texts, filename)
                         /\ upc' = "dense_upsert"
                         /\ upload_trace' = called
                         /\ UNCHANGED << caught, http_response >>
    /\ UNCHANGED << filename, file_content, dense_index, sparse_index >>
    /\ UNCHANGED << pc, state, failure, yielded, trace, nodes, checkLocals, ragLocals,
                    genLocals, telemetry, tracing, mergeVars >>

\* dense_index.upsert_records("rag-namespace", records)
DenseUpsert ==
    /\ upc = "dense_upsert"
    /\ \/ /\ dense_index' = Upserted(dense_index, records)
          /\ upc' = "sparse_upsert"
          /\ upload_trace' = Append(upload_trace, UploadEvent("dense_upsert", records))
          /\ UNCHANGED << caught, http_response >>
       \/ /\ Caught("dense_index.upsert_records")
          /\ upload_trace' = upload_trace \o <<UploadEvent("dense_upsert", records),
                                               UploadEvent("raise", "dense_index.upsert_records")>>
          /\ UNCHANGED dense_index
    /\ UNCHANGED << filename, file_content, records, sparse_index >>
    /\ UNCHANGED << pc, state, failure, yielded, trace, nodes, checkLocals, ragLocals,
                    genLocals, telemetry, tracing, mergeVars >>

\* a sparse upsert whose failure takes the records out of the dense index
SparseUpsertWithRollback ==
    /\ upc = "sparse_upsert"
    /\ \/ /\ sparse_index' = Upserted(sparse_index, records)
          /\ upc' = "done"
          /\ http_response' = JSONResponse(<<>>, 200)
          /\ upload_trace' = Append(upload_trace, UploadEvent("sparse_upsert", records))
          /\ UNCHANGED << caught, dense_index >>
       \/ /\ Caught("sparse_index.upsert_records")
          /\ upload_trace' = upload_trace \o <<UploadEvent("sparse_upsert", records),
                                               UploadEvent("raise", "sparse_index.upsert_records")>>
          /\ dense_index' = {}
          /\ UNCHANGED sparse_index
    /\ UNCHANGED << filename, file_content, records >>
    /\ UNCHANGED << pc, state, failure, yielded, trace, nodes, checkLocals, ragLocals,
                    genLocals, telemetry, tracing, mergeVars >>

\* sparse_index.upsert_records("rag-namespace", records), and the response
SparseUpsert ==
    /\ upc = "sparse_upsert"
    /\ \/ /\ sparse_index' = Upserted(sparse_index, records)
          /\ upc' = "done"
          /\ http_response' = JSONResponse(<<>>, 200)
          /\ upload_trace' = Append(upload_trace, UploadEvent("sparse_upsert", records))
          /\ UNCHANGED caught
       \/ /\ Caught("sparse_index.upsert_records")
          /\ upload_trace' = upload_trace \o <<UploadEvent("sparse_upsert", records),
                                               UploadEvent("raise", "sparse_index.upsert_records")>>
          /\ UNCHANGED sparse_index
    /\ UNCHANGED << filename, file_content, records, dense_index >>
    /\ UNCHANGED << pc, state, failure, yielded, trace, nodes, checkLocals, ragLocals,
                    genLocals, telemetry, tracing, mergeVars >>

\* an upload arrives at the route, or upload_document is called directly
InitUpload ==
    /\ InitRuns({})
    /\ NoMerge
    /\ upc \in {"route", "upload_document"}
    /\ filename \in Filenames
    /\ file_content \in Contents
    /\ records = <<>>
    /\ dense_index = {}
    /\ sparse_index = {}
    /\ caught = "none"
    /\ http_response = None
    /\ upload_trace = <<>>

NextUpload ==
    \/ UploadRoute
    \/ UploadDocument
    \/ DenseUpsert
    \/ SparseUpsert

UploadSpec == InitUpload /\ [][NextUpload]_vars

(***************************************************************************)
(* Vocabulary of the properties.                                           *)
(***************************************************************************)
IsPrefix(s, t) == Len(s) <= Len(t) /\ SubSeq(t, 1, Len(s)) = s

\* positions of the trace of run r at which `name` was issued, returned
Calls(r, name) ==
    {i \in DOMAIN trace[r] : trace[r][i].call = name /\ trace[r][i].event = "call"}

Returns(r, name) ==
    {i \in DOMAIN trace[r] : trace[r][i].call = name /\ trace[r][i].event = "return"}

\* the external call `name` of run r returned n items
ReturnedSize(r, name, n) ==
    \E i \in Returns(r, name) : trace[r][i].size = n

Ran(r, node) == \E i \in DOMAIN nodes[r] : nodes[r][i] = node

Finished(r) == pc[r] = "done"

NegativeVerdict(r) == Has(r, "has_context") /\ ~state[r].has_context

(***************************************************************************)
(* C1: a run whose context check set has_context = false yields exactly    *)
(* the refusal string, once, and issues no dense search, no sparse search, *)
(* no rerank and no streaming generation call.                             *)
(***************************************************************************)
C1_NegativeVerdictRefuses ==
    \A r \in Runs :
        NegativeVerdict(r) =>
            /\ Calls(r, "dense") = {}
            /\ Calls(r, "sparse") = {}
            /\ Calls(r, "rerank") = {}
            /\ Calls(r, "astream") = {}
            /\ IsPrefix(yielded[r], <<REFUSAL>>)
            /\ pc[r] \in {"cannot_answer", "done"}
            /\ Finished(r) => yielded[r] = <<REFUSAL>>

C1_Witness ==
    \E r \in Runs :
        /\ Finished(r)
        /\ NegativeVerdict(r)
        /\ yielded[r] = <<REFUSAL>>

(***************************************************************************)
(* C2: in a run that ends without an exception the fragments yielded by    *)
(* stream() concatenate to the final answer: on the generation path they   *)
(* are the model's non-empty content deltas, in order, each once; on the   *)
(* refusal path the refusal string once.                                   *)
(***************************************************************************)
RECURSIVE NonEmptyDeltas(_)
NonEmptyDeltas(chunks) ==
    IF chunks = <<>> THEN <<>>
    ELSE LET c == Head(chunks)
         IN  (IF c.content # <<>> /\ c.content[1].text # <<>>
              THEN <<c.content[1].text>> ELSE <<>>) \o NonEmptyDeltas(Tail(chunks))

C2_FragmentsAreTheAnswerOnce ==
    \A r \in Runs :
        Finished(r) =>
            /\ Concat(yielded[r]) = state[r].answer
            /\ IF Ran(r, "generate_answer")
               THEN yielded[r] = NonEmptyDeltas(drawn[r])
               ELSE yielded[r] = <<REFUSAL>>

(***************************************************************************)
(* C3: the stages of one request run in the order check_context,           *)
(* retrieve_rag, then generate_answer or cannot_answer: an index search is *)
(* issued only after the context-check call returned and has_context is    *)
(* set, the rerank call only after both searches returned, the streaming   *)
(* call only after the rerank call returned and has_documents is set.      *)
(***************************************************************************)
Before(r, earlier, later) ==
    \A j \in later : \E i \in earlier : i < j

StageOrders ==
    { <<"check_context", "retrieve_rag", "generate_answer">>,
      <<"check_context", "retrieve_rag", "cannot_answer">>,
      <<"check_context", "cannot_answer">> }

C3_StagesInOrder ==
    \A r \in Runs :
        /\ \E order \in StageOrders : IsPrefix(nodes[r], order)
        /\ Before(r, Returns(r, "invoke"), Calls(r, "dense") \cup Calls(r, "sparse"))
        /\ Calls(r, "dense") \cup Calls(r, "sparse") # {}
              => Has(r, "has_context") /\ state[r].has_context
        /\ Before(r, Returns(r, "dense"), Calls(r, "sparse"))
        /\ Before(r, Returns(r, "dense"), Calls(r, "rerank"))
        /\ Before(r, Returns(r, "sparse"), Calls(r, "rerank"))
        /\ Before(r, Returns(r, "rerank"), Calls(r, "astream"))
        /\ Calls(r, "astream") # {} => Has(r, "has_documents") /\ state[r].has_documents

C3_Witness ==
    \E r \in Runs :
        /\ Finished(r)
        /\ nodes[r] = <<"check_context", "retrieve_rag", "generate_answer">>
        /\ Calls(r, "astream") # {}

(***************************************************************************)
(* C4: when the context verdict is positive and both searches return no    *)
(* hit, has_documents is false, neither the reranker nor the generation is *)
(* invoked and stream() yields exactly the refusal string.                 *)
(***************************************************************************)
EmptyRetrieval(r) ==
    /\ Has(r, "has_context") /\ state[r].has_context
    /\ ReturnedSize(r, "dense", 0)
    /\ ReturnedSize(r, "sparse", 0)

C4_EmptyRetrievalRefuses ==
    \A r \in Runs :
        EmptyRetrieval(r) =>
            /\ Has(r, "has_documents") /\ ~state[r].has_documents
            /\ Calls(r, "rerank") = {}
            /\ Calls(r, "astream") = {}
            /\ ~Ran(r, "generate_answer")
            /\ IsPrefix(yielded[r], <<REFUSAL>>)
            /\ pc[r] \in {"cannot_answer", "done"}
            /\ Finished(r) => yielded[r] = <<REFUSAL>>

C4_Witness ==
    \E r \in Runs :
        /\ Finished(r)
        /\ EmptyRetrieval(r)
        /\ yielded[r] = <<REFUSAL>>

(***************************************************************************)
(* C5: check_context_node tolerates any response: whatever the content     *)
(* (empty, without a text part, text in any letter case) it completes      *)
(* without error and sets has_context to true exactly when the response    *)
(* text, upper-cased, contains "YES".  The step is taken with the usage    *)
(* report out of the way, so that only the content decides.                *)
(***************************************************************************)
\* the response text of the content contains "YES" once upper-cased
PositiveVerdict(content) ==
    /\ content # <<>>
    /\ "text" \in DOMAIN content[1]
    /\ Contains(Upper(content[1].text), YES)

UsageFailures == {"TypeError", "lookup_raises", "add_raises"}

C5_ToleratesAnyResponse ==
    [][\A r \in Runs :
          (/\ pc[r] = "check_context_response"
           /\ pc'[r] # "check_context_response"
           /\ failure'[r] \notin UsageFailures)
          => /\ pc'[r] # "failed"
             /\ "has_context" \in DOMAIN state'[r]
             /\ state'[r].has_context = PositiveVerdict(response[r].content)]_vars

(***************************************************************************)
(* C6: a run in which no external call fails ends after at most three      *)
(* nodes, each run at most once, in generate_answer or cannot_answer, with *)
(* `answer` set in the request state.                                      *)
(***************************************************************************)
ExternalCallFailures ==
    {"invoke", "dense", "sparse", "rerank", "astream", "lookup_raises", "add_raises"}

Ended(r) == pc[r] \in {"done", "failed"}

C6_EndsInTerminalNodeWithAnswer ==
    \A r \in Runs :
        /\ Len(nodes[r]) <= 3
        /\ \A i, j \in DOMAIN nodes[r] : i # j => nodes[r][i] # nodes[r][j]
        /\ (Ended(r) /\ failure[r] \notin ExternalCallFailures)
              => /\ Finished(r)
                 /\ nodes[r] # <<>>
                 /\ nodes[r][Len(nodes[r])] \in {"generate_answer", "cannot_answer"}
                 /\ Has(r, "answer")

(***************************************************************************)
(* C7: the candidate list of __merge_chunks holds every identifier of the  *)
(* two hit lists exactly once and no other, in the order of the surviving  *)
(* hits' scores, highest first, hits of equal score in the order of their  *)
(* identifiers' first occurrence; a candidate carries the identifier and   *)
(* the chunk text only.                                                    *)
(***************************************************************************)
FirstOccurrence(hits, id) ==
    CHOOSE i \in DOMAIN hits :
        /\ hits[i]._id = id
        /\ \A j \in DOMAIN hits : hits[j]._id = id => i <= j

\* out lists one surviving hit of `hits` per position, by score descending,
\* ties in first-occurrence order
OrderedBySurvivors(hits, out) ==
    \E pick \in [DOMAIN out -> DOMAIN hits] :
        /\ \A i \in DOMAIN out :
            /\ hits[pick[i]]._id = out[i]._id
            /\ hits[pick[i]].fields.chunk_text = out[i].chunk_text
        /\ \A i, j \in DOMAIN out :
            i < j =>
                \/ hits[pick[i]]._score > hits[pick[j]]._score
                \/ /\ hits[pick[i]]._score = hits[pick[j]]._score
                   /\ FirstOccurrence(hits, out[i]._id) < FirstOccurrence(hits, out[j]._id)

C7_MergeDedupsAndSorts ==
    result[1] = "returned" =>
        LET hits == arg1 \o arg2
            out  == result[2]
        IN  /\ {out[i]._id : i \in DOMAIN out} = {hits[i]._id : i \in DOMAIN hits}
            /\ \A i, j \in DOMAIN out : i # j => out[i]._id # out[j]._id
            /\ \A i \in DOMAIN out : DOMAIN out[i] = {"_id", "chunk_text"}
            /\ OrderedBySurvivors(hits, out)

\* both lists hold the same identifier with different scores, and two
\* identifiers survive
C7_Witness ==
    /\ result[1] = "returned"
    /\ Len(result[2]) = 2
    /\ \E i \in DOMAIN arg1, j \in DOMAIN arg2 :
        arg1[i]._id = arg2[j]._id /\ arg1[i]._score # arg2[j]._score

(***************************************************************************)
(* C8: has_documents is true exactly when the reranker was invoked and     *)
(* returned a non-empty list; documents is non-empty whenever              *)
(* has_documents is true and absent or empty otherwise; and                *)
(* generate_answer_node runs only with has_context, has_documents and a    *)
(* non-empty documents.                                                    *)
(***************************************************************************)
RerankReturnedDocuments(r) ==
    \E i \in Returns(r, "rerank") : trace[r][i].size > 0

HasDocumentsSet(r) == Has(r, "has_documents") /\ state[r].has_documents

C8_DocumentsMatchFlag ==
    \A r \in Runs :
        /\ HasDocumentsSet(r) <=> RerankReturnedDocuments(r)
        /\ HasDocumentsSet(r) => Has(r, "documents") /\ state[r].documents # <<>>
        /\ ~HasDocumentsSet(r) => (~Has(r, "documents") \/ state[r].documents = <<>>)
        /\ Ran(r, "generate_answer")
              => /\ Has(r, "has_context") /\ state[r].has_context
                 /\ HasDocumentsSet(r)
                 /\ state[r].documents # <<>>

C8_Witness ==
    \E r \in Runs :
        /\ Ran(r, "generate_answer")
        /\ HasDocumentsSet(r)
        /\ Len(state[r].documents) > 0

(***************************************************************************)
(* C9: a failure while recording usage telemetry (the run lookup or        *)
(* add_metadata raising, or a response without usage metadata) never fails *)
(* the request.                                                            *)
(***************************************************************************)
C9_TelemetryNeverFailsTheRequest ==
    \A r \in Runs : failure[r] \notin UsageFailures

(***************************************************************************)
(* C10: on the generation path the usage of the streamed call is reported  *)
(* exactly once, only after the model stream is fully consumed, never      *)
(* while chunks are still drawn, and the reported input and output counts  *)
(* are the sums over every chunk that carried usage metadata, whatever its *)
(* content, with total = input + output.                                   *)
(***************************************************************************)
RECURSIVE SumUsage(_, _)
SumUsage(chunks, field) ==
    IF chunks = <<>> THEN 0
    ELSE (IF Head(chunks).usage_metadata # None
          THEN Head(chunks).usage_metadata[field] ELSE 0) + SumUsage(Tail(chunks), field)

\* positions of the usage reports of run r made by `node`
Reports(r, node) == {i \in DOMAIN usage[r] : usage[r][i].node = node}

C10_UsageReportedOnceAfterStream ==
    \A r \in Runs :
        /\ Cardinality(Reports(r, "generate_answer")) <= 1
        /\ pc[r] \in {"start", "check_context", "check_context_invoke",
                      "check_context_response", "retrieve_rag", "dense_search",
                      "sparse_search", "rerank", "generate_answer", "streaming"}
              => Reports(r, "generate_answer") = {}
        /\ (Finished(r) /\ Ran(r, "generate_answer"))
              => Cardinality(Reports(r, "generate_answer")) = 1
        /\ \A i \in Reports(r, "generate_answer") :
            /\ ReturnedSize(r, "astream", Len(drawn[r]))
            /\ usage[r][i].input_tokens = SumUsage(drawn[r], "input_tokens")
            /\ usage[r][i].output_tokens = SumUsage(drawn[r], "output_tokens")
            /\ usage[r][i].outcome = "recorded"
                  => /\ metadata[r] # <<>>
                     /\ metadata[r][Len(metadata[r])] =
                            [input_tokens  |-> SumUsage(drawn[r], "input_tokens"),
                             output_tokens |-> SumUsage(drawn[r], "output_tokens"),
                             total_tokens  |-> SumUsage(drawn[r], "input_tokens")
                                                 + SumUsage(drawn[r], "output_tokens")]

\* a finished generation whose stream had a chunk with usage and no
\* content and a chunk with usage and content, its usage recorded
C10_Witness ==
    \E r \in Runs :
        /\ Finished(r)
        /\ Ran(r, "generate_answer")
        /\ \E i \in Reports(r, "generate_answer") : usage[r][i].outcome = "recorded"
        /\ \E i, j \in DOMAIN drawn[r] :
            /\ drawn[r][i].usage_metadata # None /\ drawn[r][i].content = <<>>
            /\ drawn[r][j].usage_metadata # None /\ drawn[r][j].content # <<>>

(***************************************************************************)
(* C11: when the context-check call, an index search, the rerank call or   *)
(* the generation stream raises, the failure ends the request: it leaves   *)
(* stream(), no later stage runs, no external call is issued after it,     *)
(* every external call is issued at most once per request, and the refusal *)
(* string is not emitted in place of the failure.                          *)
(***************************************************************************)
ExternalCalls == {"invoke", "dense", "sparse", "rerank", "astream"}

\* the node whose code issues the call
NodeOf(call) ==
    CASE call = "invoke" -> "check_context"
      [] call = "astream" -> "generate_answer"
      [] OTHER -> "retrieve_rag"

RaisedCalls(r) == {i \in DOMAIN trace[r] : trace[r][i].event = "raise"}

C11_ExternalFailureIsFatal ==
    \A r \in Runs :
        /\ \A call \in ExternalCalls : Cardinality(Calls(r, call)) <= 1
        /\ \A i \in RaisedCalls(r) :
            /\ i = Len(trace[r])
            /\ pc[r] = "failed"
            /\ failure[r] = trace[r][i].call
            /\ nodes[r][Len(nodes[r])] = NodeOf(trace[r][i].call)
            /\ ~Ran(r, "cannot_answer")
            /\ ~Has(r, "answer")
            /\ \A k \in DOMAIN yielded[r] : yielded[r][k] # REFUSAL

\* the stream raised after a fragment had been delivered
C11_Witness ==
    \E r \in Runs :
        /\ pc[r] = "failed"
        /\ failure[r] = "astream"
        /\ yielded[r] # <<>>
        /\ RaisedCalls(r) # {}

(***************************************************************************)
(* C16: at every point of generate_answer_node the accumulated answer is   *)
(* the concatenation, in arrival order, of the fragments already handed to *)
(* the stream writer: every chunk with content is appended and forwarded   *)
(* before the next chunk is drawn, a chunk with empty content is neither   *)
(* appended nor forwarded, and the node forwards no fragment out of order  *)
(* or twice.                                                               *)
(***************************************************************************)
RECURSIVE ContentTexts(_)
\* the texts of the chunks that have content, in arrival order
ContentTexts(chunks) ==
    IF chunks = <<>> THEN <<>>
    ELSE (IF Head(chunks).content # <<>>
          THEN <<Head(chunks).content[1].text>> ELSE <<>>) \o ContentTexts(Tail(chunks))

C16_AnswerIsWhatWasForwarded ==
    \A r \in Runs :
        /\ response_text[r] = Concat([i \in DOMAIN written[r] |-> written[r][i].answer])
        /\ [i \in DOMAIN written[r] |-> written[r][i].answer] = ContentTexts(drawn[r])
        /\ (Finished(r) /\ Ran(r, "generate_answer")) => state[r].answer = response_text[r]

\* two different fragments forwarded, and a chunk without content between
\* or around them
C16_Witness ==
    \E r \in Runs :
        /\ pc[r] = "streaming"
        /\ Len(written[r]) = 2
        /\ written[r][1].answer = <<"p">>
        /\ written[r][2].answer = <<"q">>

(***************************************************************************)
(* C19: the usage sink is invoked at most once per model call and never    *)
(* for a call that was not made.  With an active tracing run, a run        *)
(* refused at check_context or at retrieve_rag records usage exactly once, *)
(* for the context check and before any index search starts; a run that    *)
(* finishes generate_answer records it exactly twice, context check first. *)
(* With no active tracing run nothing is recorded and the request goes on. *)
(***************************************************************************)
ReportedNodes(r) == [i \in DOMAIN usage[r] |-> usage[r][i].node]

C19_UsageOncePerModelCall ==
    \A r \in Runs :
        /\ Cardinality(Reports(r, "check_context")) <= Cardinality(Returns(r, "invoke"))
        /\ Cardinality(Reports(r, "generate_answer")) <= Cardinality(Returns(r, "astream"))
        /\ Reports(r, "check_context") \cup Reports(r, "generate_answer") = DOMAIN usage[r]
        /\ Len(metadata[r]) <= Len(usage[r])
        /\ tracing[r] =>
            /\ Calls(r, "dense") # {} => Len(metadata[r]) >= 1
            /\ (Finished(r) /\ ~Ran(r, "generate_answer"))
                  => /\ ReportedNodes(r) = <<"check_context">>
                     /\ Len(metadata[r]) = 1
            /\ (Finished(r) /\ Ran(r, "generate_answer"))
                  => /\ ReportedNodes(r) = <<"check_context", "generate_answer">>
                     /\ Len(metadata[r]) = 2
        /\ ~tracing[r] =>
            /\ metadata[r] = <<>>
            /\ (usage[r] # <<>> /\ usage[r][Len(usage[r])].outcome = "no_run")
                  => failure[r] \notin UsageFailures

\* a finished generation under an active tracing run, and its two records
C19_Witness ==
    \E r \in Runs :
        /\ tracing[r]
        /\ Finished(r)
        /\ Ran(r, "generate_answer")
        /\ Len(metadata[r]) = 2
        /\ metadata[r][1].total_tokens = 6

(***************************************************************************)
(* C18: retrieve_rag_node calls __merge_chunks with the sparse hits first  *)
(* and the dense hits second.  For an identifier both lists hold, the      *)
(* dense hit survives deduplication: the candidate's chunk text and the    *)
(* score that sorts it are the dense hit's, while among equal scores its   *)
(* place is that of the identifier's first occurrence, in the sparse list. *)
(* arg1 is the first argument (the sparse hits), arg2 the second (the      *)
(* dense hits).                                                            *)
(***************************************************************************)
Occurs(hits, id) == \E i \in DOMAIN hits : hits[i]._id = id

LastOccurrence(hits, id) ==
    CHOOSE i \in DOMAIN hits :
        /\ hits[i]._id = id
        /\ \A j \in DOMAIN hits : hits[j]._id = id => j <= i

\* the hit of identifier id that the merge of sparse and dense keeps
Survivor(sparse, dense, id) ==
    IF Occurs(dense, id) THEN dense[LastOccurrence(dense, id)]
    ELSE sparse[LastOccurrence(sparse, id)]

C18_DenseCopySurvives ==
    result[1] = "returned" =>
        LET sparse == arg1
            dense  == arg2
            out    == result[2]
            kept(i) == Survivor(sparse, dense, out[i]._id)
        IN  /\ \A i \in DOMAIN out : out[i].chunk_text = kept(i).fields.chunk_text
            /\ \A i, j \in DOMAIN out :
                i < j =>
                    \/ kept(i)._score > kept(j)._score
                    \/ /\ kept(i)._score = kept(j)._score
                       /\ FirstOccurrence(sparse \o dense, out[i]._id)
                            < FirstOccurrence(sparse \o dense, out[j]._id)

\* an identifier in both lists whose dense hit has another text and a
\* higher score than its sparse hit, which ties it with a hit that comes
\* after it in the sparse list
C18_Witness ==
    /\ result[1] = "returned"
    /\ Len(arg1) = 2 /\ Len(arg2) = 1
    /\ arg1[1]._id = arg2[1]._id
    /\ arg1[2]._id # arg1[1]._id
    /\ arg1[1]._score < arg2[1]._score
    /\ arg1[2]._score = arg2[1]._score
    /\ arg1[1].fields.chunk_text # arg2[1].fields.chunk_text
    /\ result[2][1] = Candidate(arg2[1])


(***************************************************************************)
(* Vocabulary of the ingestion properties.                                 *)
(***************************************************************************)
UploadCalls(call) == {i \in 1..Len(upload_trace) : upload_trace[i].call = call}

UploadDone == upc = "done"

ViaRoute == upload_trace # <<>> /\ upload_trace[1].call = "route"

\* the exceptions of a crash: extraction, splitting or an upsert failed
Crashes == {"PdfReader", "DocxDocument", "split_text",
            "dense_index.upsert_records", "sparse_index.upsert_records"}

GenericFailure == [status_code |-> 500,
                   content |-> << <<"detail", "Internal Server Error">> >>]

SupportedExtensions == {<<"p", "d", "f">>, <<"d", "o", "c", "x">>, <<"t", "x", "t">>}

HasSupportedSuffix(name) == \E e \in SupportedExtensions : EndsWith(name, <<".">> \o e)

RecordSet == {records[i] : i \in 1..Len(records)}

(***************************************************************************)
(* C12: when the extracted text is empty or whitespace-only,               *)
(* upload_document writes nothing to either index and reports a rejected   *)
(* upload whose outcome differs from the outcome of a crash (an extraction *)
(* or upsert exception) and from success.                                  *)
(***************************************************************************)
C12_BlankTextIsRejectedDistinctly ==
    (UploadDone /\ caught = NO_TEXT) =>
        /\ dense_index = {} /\ sparse_index = {}
        /\ http_response.status_code # 200
        /\ \A e \in Crashes : http_response # ExceptionResponse(e)

(***************************************************************************)
(* C13: upload_document never propagates an exception: every failure of    *)
(* extraction, splitting or either upsert ends in a status-500 response    *)
(* whose body is the fixed detail "Internal Server Error" and holds        *)
(* nothing of the exception; status 200 is returned only when no step      *)
(* failed.                                                                 *)
(***************************************************************************)
C13_FailuresAreGeneric500 ==
    /\ UploadCalls("raise") # {} =>
         /\ UploadDone
         /\ http_response = GenericFailure
         /\ caught = upload_trace[Len(upload_trace)].arg
    /\ (UploadDone /\ UploadCalls("upload_document") # {}) =>
         /\ http_response.status_code \in {200, 500}
         /\ http_response.status_code = 200 <=> UploadCalls("raise") = {}
         /\ http_response.status_code = 200 <=> caught = "none"

\* a failed upsert answered with the generic failure
C13_Witness ==
    /\ UploadDone
    /\ caught = "dense_index.upsert_records"
    /\ http_response = GenericFailure

(***************************************************************************)
(* C14: an upload whose file name does not end in .pdf, .docx or .txt is   *)
(* rejected by the route with status 400 before upload_document is called  *)
(* and before any index write; every file name that reaches the service    *)
(* through the route has one of the three extensions, and _extract_text    *)
(* never raises "Unsupported file type" for it.                            *)
(***************************************************************************)
C14_RouteRejectsUnsupported ==
    ViaRoute =>
        /\ ~HasSupportedSuffix(filename) =>
             /\ UploadDone
             /\ http_response.status_code = 400
             /\ UploadCalls("upload_document") = {}
             /\ UploadCalls("dense_upsert") = {} /\ UploadCalls("sparse_upsert") = {}
             /\ dense_index = {} /\ sparse_index = {}
        /\ UploadCalls("upload_document") # {} => Ext(filename) \in SupportedExtensions
        /\ caught # UNSUPPORTED

\* a file name the service would have read, rejected by the route
C14_Witness ==
    /\ ViaRoute
    /\ UploadDone
    /\ filename = <<"a", ".", "P", "D", "F">>
    /\ http_response.status_code = 400

(***************************************************************************)
(* C17: ingestion writes the same record list to the dense index first and *)
(* then to the sparse index, with no rollback: 200 is returned only after  *)
(* both upserts completed, and when the sparse upsert fails after the      *)
(* dense one succeeded the response is 500, the dense index keeps the new  *)
(* records and the sparse index has none of them.                          *)
(***************************************************************************)
C17_DenseThenSparseNoRollback ==
    /\ \A i \in UploadCalls("dense_upsert") \cup UploadCalls("sparse_upsert") :
         upload_trace[i].arg = records
    /\ \A j \in UploadCalls("sparse_upsert") :
         /\ \E i \in UploadCalls("dense_upsert") : i < j
         /\ dense_index = RecordSet
    /\ (UploadDone /\ http_response.status_code = 200) =>
         /\ UploadCalls("dense_upsert") # {} /\ UploadCalls("sparse_upsert") # {}
         /\ UploadCalls("raise") = {}
         /\ dense_index = RecordSet /\ sparse_index = RecordSet
         /\ \A i \in 1..Len(records) :
              /\ records[i].filename = filename
              /\ \A j \in 1..Len(records) : records[i]._id = records[j]._id => i = j
    /\ caught = "sparse_index.upsert_records" =>
         /\ http_response = GenericFailure
         /\ records # <<>>
         /\ dense_index = RecordSet
         /\ sparse_index \cap RecordSet = {}

\* two records in the dense index and none in the sparse one after a failed
\* sparse upsert
C17_Witness ==
    /\ UploadDone
    /\ caught = "sparse_index.upsert_records"
    /\ Len(records) = 2
    /\ Cardinality(dense_index) = 2
    /\ sparse_index = {}

(***************************************************************************)
(* C15: requests that interleave on the shared AgentWorkFlow at any        *)
(* suspension point keep their state, their token counts and the fragments *)
(* delivered to their caller as if each had run alone: a step of one       *)
(* request changes nothing of another, and what a request holds is made of *)
(* its own prompt and its own model stream.                                *)
(***************************************************************************)
\* everything run r holds
RunView(r) ==
    << pc[r], state[r], response[r], query[r], dense_results[r], sparse_results[r],
       merged_results[r], response_text[r], input_tokens[r], output_tokens[r],
       drawn[r], written[r], yielded[r], trace[r], nodes[r], usage[r], metadata[r],
       failure[r], tracing[r] >>

\* a step that changes one run changes no other
OneRunPerStep ==
    \A r \in Runs :
        RunView(r)' # RunView(r) => \A q \in Runs \ {r} : RunView(q)' = RunView(q)

\* what run r holds follows from its own prompt and its own model stream
OwnRun(r) ==
    /\ state[r].prompt = OwnPrompt(r)
    /\ query[r] \in {<<>>, Lower(OwnPrompt(r))}
    /\ response_text[r] = Concat(ContentTexts(drawn[r]))
    /\ input_tokens[r] = SumUsage(drawn[r], "input_tokens")
    /\ output_tokens[r] = SumUsage(drawn[r], "output_tokens")
    /\ [i \in DOMAIN written[r] |-> written[r][i].answer] = ContentTexts(drawn[r])
    /\ pc[r] = "streaming" => yielded[r] = NonEmptyDeltas(drawn[r])
    /\ (Finished(r) /\ Ran(r, "generate_answer")) =>
          /\ state[r].answer = Concat(ContentTexts(drawn[r]))
          /\ \A i \in DOMAIN yielded[r] : \A k \in DOMAIN yielded[r][i] :
               yielded[r][i][k] = OwnDelta(r)[1]
    /\ (Finished(r) /\ ~Ran(r, "generate_answer")) => yielded[r] = <<REFUSAL>>

C15_RunsAreIsolated ==
    /\ [](\A r \in Runs : OwnRun(r))
    /\ [][OneRunPerStep]_vars

\* both requests in their generation loop at once, each with its own text
C15_Witness ==
    /\ Runs = ConcRunIds
    /\ pc[1] = "streaming" /\ pc[2] = "streaming"
    /\ response_text[1] = <<"p">>
    /\ response_text[2] = <<"q", "q">>

====
